---- MODULE Spec2Model ----
(***************************************************************************)
(* The GLB -> OBJ/MTL transcoder of image2asset (gltf-transform based     *)
(* converter: exportToOBJ, generateMTLMaterial, documentTextureIndex).     *)
(*                                                                         *)
(* Representation.                                                         *)
(*  - A root list (textures, materials) is a sequence; an object reference *)
(*    is the 0-based position of the object in its root list, an optional  *)
(*    reference or attribute is a sequence of length 0 (null) or 1.        *)
(*  - Factors (floats in [0,1]) are fixed-point numbers in tenths:         *)
(*    Fixed(1) is 1.0.  A template literal `${x}` writes the shortest      *)
(*    decimal that reads back as x, so a written number is modelled by the *)
(*    value it denotes.                                                    *)
(*  - A text buffer is the sequence of its lines; a line is a tuple whose  *)
(*    head is the line's keyword.  A face line is <<"f", c1, c2, c3>>; a   *)
(*    corner is the record an OBJ reader gets from the slash-delimited     *)
(*    group: "a" -> [v], "a/b" -> [v, vt], "a//c" -> [v, vn],              *)
(*    "a/b/c" -> [v, vt, vn].                                              *)
(*  - The primitives of the document are read one by one, in mesh order    *)
(*    then primitive order, and no step reads a later primitive: the       *)
(*    primitive list is revealed as the loop consumes it (variable         *)
(*    primitives holds the part consumed so far).                          *)
(***************************************************************************)
EXTENDS Integers, Sequences, FiniteSets, TLC

VARIABLES
    textureDefs,    \* document.getRoot().listTextures()
    materials,      \* document.getRoot().listMaterials()
    primitives,     \* the primitives consumed so far, flattened in mesh order
    pc,             \* position in exportToOBJ: "start", "meshes", "done"
    textures,       \* Map texture file name -> {name, data}
    textureMap,     \* Map texture index -> texture file name
    materialMap,    \* Map material index -> material name
    objContent,     \* geometry buffer, as lines
    mtlContent,     \* material buffer, as lines
    vertexOffset,   \* running vertex offset
    texCoordOffset, \* declared by exportToOBJ, never read or written again
    normalOffset,   \* declared by exportToOBJ, never read or written again
    emittedBy,      \* history: for each line of objContent, the ordinal of the
                    \* primitive whose iteration wrote it (0: the header)
    document,       \* compressMesh: the Document it is given, mutated in place
    compress,       \* compressMesh: position, level, progress reports, outcome
    env,            \* the file system and the modules that can be imported
    conv,           \* convertGLBtoOBJ: the calls in flight, each with its locals
    reads,          \* history: the paths handed to fs.readFile, in order
    http,           \* POST /api/convert-obj: the request, position and response
    retry,          \* BaseService.withRetry: the call, its attempts and delays
    jobs,           \* data/jobs.json: the jobs registry
    assets,         \* data/assets.json: the assets registry
    handlers,       \* the single-step route handlers in flight, with their locals
    bulk            \* POST /api/bulk: the batches, the items in flight, the results

exportVars == <<textureDefs, materials, primitives, pc, textures, textureMap,
                materialMap, objContent, mtlContent, vertexOffset, texCoordOffset,
                normalOffset, emittedBy>>

compressVars == <<document, compress>>

convertVars == <<env, conv, reads, http>>

serviceVars == <<retry, jobs, assets, handlers, bulk>>

vars == <<textureDefs, materials, primitives, pc, textures, textureMap,
          materialMap, objContent, mtlContent, vertexOffset, texCoordOffset,
          normalOffset, emittedBy, document, compress, env, conv, reads, http,
          retry, jobs, assets, handlers, bulk>>

(***************************************************************************)
(* Bounds of the model.                                                    *)
(***************************************************************************)
MaxPrims == 2
MaxVerts == 3
MaxTris == 2
MaxTextures == 2
MaxMaterials == 2

(***************************************************************************)
(* Generic helpers.                                                        *)
(***************************************************************************)
Fixed(n) == n * 10

RECURSIVE Flatten(_)
Flatten(ss) == IF ss = <<>> THEN <<>> ELSE Head(ss) \o Flatten(Tail(ss))

RECURSIVE SumSeq(_)
SumSeq(s) == IF s = <<>> THEN 0 ELSE Head(s) + SumSeq(Tail(s))

Indices(list) == 0 .. (Len(list) - 1)
At(list, i) == list[i + 1]

\* Array.prototype.indexOf on a root list, for a reference into that list
IndexOf(list, ref) == IF ref \in Indices(list) THEN ref ELSE -1

(***************************************************************************)
(* Texture extraction (exportToOBJ, first loop).                           *)
(***************************************************************************)
Extension(mimeType) ==
    IF mimeType = "image/jpeg" THEN "jpg"
    ELSE IF mimeType = "image/webp" THEN "webp"
    ELSE "png"

TextureName(i, extension) == "texture_" \o ToString(i) \o "." \o extension

\* the indices i for which texture.getImage() is not null
WithImage(defs) == {i \in Indices(defs) : At(defs, i).image # <<>>}

ExtractTextureMap(defs) ==
    [i \in WithImage(defs) |-> TextureName(i, Extension(At(defs, i).mimeType))]

\* textures.set(textureName, ...): a later set of the same key replaces the earlier
ExtractTextures(defs) ==
    LET tm == ExtractTextureMap(defs)
        names == {tm[i] : i \in DOMAIN tm}
        last(n) == CHOOSE i \in DOMAIN tm :
                      /\ tm[i] = n
                      /\ \A j \in DOMAIN tm : tm[j] = n => j <= i
    IN  [n \in names |-> [name |-> n, data |-> At(defs, last(n)).image[1]]]

ObjHeader == << <<"#", "OBJ file exported by gltf-transform">>,
                <<"mtllib", "model.mtl">>,
                <<"">> >>

(***************************************************************************)
(* Material mapping (generateMTLMaterial, documentTextureIndex).           *)
(***************************************************************************)
\* mutant: the lookup answers the position of the first texture of the list
DocumentTextureIndexFirst(texture, defs) ==
    IF texture = <<>> \/ defs = <<>> THEN -1 ELSE 0

DocumentTextureIndex(texture, defs) ==
    IF texture = <<>> THEN -1 ELSE IndexOf(defs, texture[1])

\* mutant: every material gets the name of the first
MaterialNameShared(matIndex) == "material_0"

\* `material_${matIndex}`
MaterialName(matIndex) == "material_" \o ToString(matIndex)

\* mutant: a slot writes its first tag only (the roughness reference is forgotten)
MapLinesFirstTag(tags, slot, texMap, defs) ==
    IF slot # <<>>
    THEN LET texIndex == IF slot = <<>> THEN -1 ELSE IndexOf(defs, slot[1])
         IN  IF texIndex # -1 /\ texIndex \in DOMAIN texMap
             THEN << <<tags[1], texMap[texIndex]>> >>
             ELSE <<>>
    ELSE <<>>

\* one texture slot: the map lines written for it under each of the given tags
MapLines(tags, slot, texMap, defs) ==
    IF slot # <<>>
    THEN LET texIndex == DocumentTextureIndex(slot, defs)
         IN  IF texIndex # -1 /\ texIndex \in DOMAIN texMap
             THEN [k \in 1..Len(tags) |-> <<tags[k], texMap[texIndex]>>]
             ELSE <<>>
    ELSE <<>>

\* mutant: the opacity test written with <= instead of <
OpacityLinesAtMostOne(baseColorFactor) ==
    IF baseColorFactor[4] <= Fixed(1) THEN << <<"d", baseColorFactor[4]>> >> ELSE <<>>

OpacityLines(baseColorFactor) ==
    IF baseColorFactor[4] < Fixed(1) THEN << <<"d", baseColorFactor[4]>> >> ELSE <<>>

\* mutant: the emissive test looks at the red channel only
EmissiveLinesRedOnly(emissiveFactor) ==
    IF emissiveFactor[1] > 0
    THEN << <<"Ke", emissiveFactor[1], emissiveFactor[2], emissiveFactor[3]>> >>
    ELSE <<>>

EmissiveLines(emissiveFactor) ==
    IF emissiveFactor[1] > 0 \/ emissiveFactor[2] > 0 \/ emissiveFactor[3] > 0
    THEN << <<"Ke", emissiveFactor[1], emissiveFactor[2], emissiveFactor[3]>> >>
    ELSE <<>>

\* Ns is written as (1 - roughnessFactor) * 128, here in tenths like the factors
Shininess(roughnessFactor) == (Fixed(1) - roughnessFactor) * 128

GenerateMTLMaterial(material, matIndex, texMap, defs) ==
    LET baseColorFactor == material.baseColorFactor
        metallicFactor == material.metallicFactor
    IN  << <<"newmtl", MaterialName(matIndex)>>,
           <<"Ka", baseColorFactor[1], baseColorFactor[2], baseColorFactor[3]>>,
           <<"Kd", baseColorFactor[1], baseColorFactor[2], baseColorFactor[3]>>,
           <<"Ks", metallicFactor, metallicFactor, metallicFactor>>,
           <<"Ns", Shininess(material.roughnessFactor)>> >>
        \o OpacityLines(baseColorFactor)
        \o EmissiveLines(material.emissiveFactor)
        \o << <<"illum", 2>> >>
        \o MapLines(<<"map_Kd">>, material.baseColorTexture, texMap, defs)
        \o MapLines(<<"map_Bump">>, material.normalTexture, texMap, defs)
        \o MapLines(<<"map_Pm", "map_Pr">>, material.metallicRoughnessTexture, texMap, defs)
        \o MapLines(<<"map_Ke">>, material.emissiveTexture, texMap, defs)
        \o MapLines(<<"map_Ka">>, material.occlusionTexture, texMap, defs)
        \o << <<"">> >>

(***************************************************************************)
(* Geometry emission (exportToOBJ, body of the primitive loop).            *)
(***************************************************************************)
HasPosition(p) == p.position # <<>>
HasTexcoord(p) == p.texcoord # <<>>
HasNormal(p) == p.normal # <<>>
HasIndices(p) == p.indices # <<>>
HasMaterial(p) == p.material # <<>>
Count(attribute) == attribute[1].count
Array(attribute) == attribute[1].array

\* for (i = 0; i < position.getCount(); i++) objContent += `v ${x} ${y} ${z}\n`
PositionLines(position) ==
    [k \in 1..Count(position) |->
        LET i == k - 1
        IN  <<"v", At(Array(position), i * 3),
                   At(Array(position), i * 3 + 1),
                   At(Array(position), i * 3 + 2)>>]

\* mutant: the V coordinate is written as read
TexcoordLinesUnflipped(texcoord) ==
    IF texcoord = <<>> THEN <<>>
    ELSE [k \in 1..Count(texcoord) |->
            LET i == k - 1
            IN  <<"vt", At(Array(texcoord), i * 2), At(Array(texcoord), i * 2 + 1)>>]

\* objContent += `vt ${u} ${v}\n` with v flipped
TexcoordLines(texcoord) ==
    IF texcoord = <<>> THEN <<>>
    ELSE [k \in 1..Count(texcoord) |->
            LET i == k - 1
            IN  <<"vt", At(Array(texcoord), i * 2),
                        Fixed(1) - At(Array(texcoord), i * 2 + 1)>>]

NormalLines(normal) ==
    IF normal = <<>> THEN <<>>
    ELSE [k \in 1..Count(normal) |->
            LET i == k - 1
            IN  <<"vn", At(Array(normal), i * 3),
                        At(Array(normal), i * 3 + 1),
                        At(Array(normal), i * 3 + 2)>>]

\* the four face encodings; each corner uses the one number for all its fields
Corner(v, texcoord, normal) ==
    IF texcoord /\ normal THEN [v |-> v, vt |-> v, vn |-> v]
    ELSE IF texcoord THEN [v |-> v, vt |-> v]
    ELSE IF normal THEN [v |-> v, vn |-> v]
    ELSE [v |-> v]

\* the if/else chain of the indexed branch
IndexedFaceLine(v1, v2, v3, texcoord, normal) ==
    <<"f", Corner(v1, texcoord, normal), Corner(v2, texcoord, normal),
           Corner(v3, texcoord, normal)>>

\* mutant: the non-indexed chain tests the normal before the texcoord
SequentialFaceLineNormalFirst(v1, v2, v3, texcoord, normal) ==
    IF normal
    THEN <<"f", [v |-> v1, vn |-> v1], [v |-> v2, vn |-> v2], [v |-> v3, vn |-> v3]>>
    ELSE <<"f", Corner(v1, texcoord, FALSE), Corner(v2, texcoord, FALSE),
                Corner(v3, texcoord, FALSE)>>

\* the if/else chain of the non-indexed branch
SequentialFaceLine(v1, v2, v3, texcoord, normal) ==
    <<"f", Corner(v1, texcoord, normal), Corner(v2, texcoord, normal),
           Corner(v3, texcoord, normal)>>

\* for (i = 0; i < indexArray.length; i += 3)
IndexedFaces(indexArray, offset, texcoord, normal) ==
    LET starts == {i \in Indices(indexArray) : i % 3 = 0}
    IN  [k \in 1..Cardinality(starts) |->
            LET i == (k - 1) * 3
            IN  IndexedFaceLine(At(indexArray, i) + 1 + offset,
                                At(indexArray, i + 1) + 1 + offset,
                                At(indexArray, i + 2) + 1 + offset,
                                texcoord, normal)]

\* for (i = 0; i < position.getCount(); i += 3)
SequentialFaces(count, offset, texcoord, normal) ==
    LET starts == {i \in 0..(count - 1) : i % 3 = 0}
    IN  [k \in 1..Cardinality(starts) |->
            LET i == (k - 1) * 3
            IN  SequentialFaceLine(offset + i + 1, offset + i + 2, offset + i + 3,
                                   texcoord, normal)]

FaceLines(p, offset) ==
    IF HasIndices(p)
    THEN IndexedFaces(p.indices[1], offset, HasTexcoord(p), HasNormal(p))
    ELSE SequentialFaces(Count(p.position), offset, HasTexcoord(p), HasNormal(p))

\* everything one iteration appends to objContent after the material reference
GeometryLines(p, offset) ==
    IF ~HasPosition(p) THEN <<>>
    ELSE PositionLines(p.position) \o TexcoordLines(p.texcoord)
         \o NormalLines(p.normal) \o FaceLines(p, offset)

\* mutant: the offset is assigned the count instead of advanced by it
AdvanceOffsetAssign(p, offset) ==
    IF HasPosition(p) THEN Count(p.position) ELSE offset

\* vertexOffset += position.getCount(), skipped by the `continue`
AdvanceOffset(p, offset) ==
    IF HasPosition(p) THEN offset + Count(p.position) ELSE offset

\* mutant: the materialMap lookup is dropped, every reference writes a block
NewMaterialEveryTime(p, matMap) == HasMaterial(p)

\* the material reference of one iteration: is a block generated, and the name
NewMaterial(p, matMap) ==
    HasMaterial(p) /\ IndexOf(materials, p.material[1]) \notin DOMAIN matMap

\* matName is materialMap.get(matIndex), or the new name when the map has none
UseMaterialLines(p, matMap) ==
    IF HasMaterial(p)
    THEN LET matIndex == IndexOf(materials, p.material[1])
             matName == IF matIndex \in DOMAIN matMap THEN matMap[matIndex]
                        ELSE MaterialName(matIndex)
         IN  << <<"usemtl", matName>> >>
    ELSE <<>>

(***************************************************************************)
(* Input families.                                                         *)
(***************************************************************************)
\* vertex i of every attribute array comes from a fixed table
Point(i) == <<i % 2, (i \div 2) % 2, i \div 4>>
TexPoint(i) == <<(2 * i) % 11, (3 * i + 2) % 11>>
NormalVec(i) == <<0, 0, 1>>

PositionAttr(n) == << [count |-> n, array |-> Flatten([k \in 1..n |-> Point(k - 1)])] >>
TexcoordAttr(n) == << [count |-> n, array |-> Flatten([k \in 1..n |-> TexPoint(k - 1)])] >>
NormalAttr(n) == << [count |-> n, array |-> Flatten([k \in 1..n |-> NormalVec(k - 1)])] >>

\* an index buffer of t triangles over n vertices: triangle k is (k, k+1, k+2) mod n
IndexBuffer(n, t) == << Flatten([k \in 1..t |-> <<(k - 1) % n, k % n, (k + 1) % n>>]) >>

NoPositionPrimitive(mat) ==
    [material |-> mat, position |-> <<>>, texcoord |-> <<>>, normal |-> <<>>,
     indices |-> <<>>]

\* non-indexed primitives of every vertex count, indexed primitives of MaxVerts
\* vertices and every number of triangles, each with every attribute set
GeometryPrimitives(mats) ==
    { [material |-> mat,
       position |-> PositionAttr(n),
       texcoord |-> IF tc THEN TexcoordAttr(n) ELSE <<>>,
       normal |-> IF nm THEN NormalAttr(n) ELSE <<>>,
       indices |-> <<>>] :
      mat \in mats, n \in 1..MaxVerts, tc \in BOOLEAN, nm \in BOOLEAN }
    \cup
    { [material |-> mat,
       position |-> PositionAttr(MaxVerts),
       texcoord |-> IF tc THEN TexcoordAttr(MaxVerts) ELSE <<>>,
       normal |-> IF nm THEN NormalAttr(MaxVerts) ELSE <<>>,
       indices |-> IndexBuffer(MaxVerts, t)] :
      mat \in mats, tc \in BOOLEAN, nm \in BOOLEAN, t \in 1..MaxTris }
    \cup { NoPositionPrimitive(mat) : mat \in mats }

\* the single triangle of the end-to-end scenario
TrianglePrimitive(mat) ==
    [material |-> mat, position |-> PositionAttr(3), texcoord |-> <<>>,
     normal |-> <<>>, indices |-> <<>>]

ImageBytes == <<137, 80, 78, 71>>
TextureWith(mimeType) == [image |-> <<ImageBytes>>, mimeType |-> mimeType]
TextureWithoutImage == [image |-> <<>>, mimeType |-> "image/png"]

PlainMaterial ==
    [baseColorFactor |-> <<Fixed(1), Fixed(1), Fixed(1), Fixed(1)>>,
     metallicFactor |-> 0, roughnessFactor |-> Fixed(1),
     emissiveFactor |-> <<0, 0, 0>>,
     baseColorTexture |-> <<>>, normalTexture |-> <<>>,
     metallicRoughnessTexture |-> <<>>, emissiveTexture |-> <<>>,
     occlusionTexture |-> <<>>]

SeqsUpTo(S, n) == UNION {[1..k -> S] : k \in 0..n}

(***************************************************************************)
(* exportToOBJ as a state machine.                                         *)
(***************************************************************************)
Locals ==
    /\ primitives = <<>>
    /\ pc = "start"
    /\ textures = <<>>
    /\ textureMap = <<>>
    /\ materialMap = <<>>
    /\ objContent = <<>>
    /\ mtlContent = <<>>
    /\ vertexOffset = 0
    /\ texCoordOffset = 0
    /\ normalOffset = 0
    /\ emittedBy = <<>>

\* no call of compressMesh is in flight
NoCompression ==
    /\ document = <<>>
    /\ compress = [pc |-> "idle"]

\* no call of convertGLBtoOBJ and no request is in flight
\* no service call, no route handler and no bulk request; empty registries
NoService ==
    /\ retry = [pc |-> "idle"]
    /\ jobs = <<>>
    /\ assets = <<>>
    /\ handlers = <<>>
    /\ bulk = [pc |-> "idle"]

NoConversion ==
    /\ env = [files |-> <<>>]
    /\ conv = <<>>
    /\ reads = <<>>
    /\ http = [pc |-> "idle"]

\* the texture loop and the OBJ header
Begin ==
    /\ pc = "start"
    /\ textures' = ExtractTextures(textureDefs)
    /\ textureMap' = ExtractTextureMap(textureDefs)
    /\ objContent' = objContent \o ObjHeader
    /\ emittedBy' = emittedBy \o [k \in 1..Len(ObjHeader) |-> 0]
    /\ pc' = "meshes"
    /\ UNCHANGED <<textureDefs, materials, primitives, materialMap, mtlContent,
                   vertexOffset, texCoordOffset, normalOffset>>
    /\ UNCHANGED <<compressVars, convertVars, serviceVars>>

\* one iteration of the primitive loop, for the next primitive p of the document
ProcessPrimitive(p) ==
    /\ pc = "meshes"
    /\ Len(primitives) < MaxPrims
    /\ primitives' = Append(primitives, p)
    /\ LET matIndex == IndexOf(materials, p.material[1])
           written == UseMaterialLines(p, materialMap) \o GeometryLines(p, vertexOffset)
       IN  /\ IF NewMaterial(p, materialMap)
              THEN /\ materialMap' = (matIndex :> MaterialName(matIndex)) @@ materialMap
                   /\ mtlContent' = mtlContent \o
                        GenerateMTLMaterial(At(materials, matIndex), matIndex,
                                            textureMap, textureDefs)
              ELSE UNCHANGED <<materialMap, mtlContent>>
           /\ objContent' = objContent \o written
           /\ emittedBy' = emittedBy \o [k \in 1..Len(written) |-> Len(primitives) + 1]
    /\ vertexOffset' = AdvanceOffset(p, vertexOffset)
    /\ UNCHANGED <<textureDefs, materials, pc, textures, textureMap,
                   texCoordOffset, normalOffset>>
    /\ UNCHANGED <<compressVars, convertVars, serviceVars>>

\* return { obj: objContent, mtl: mtlContent, textures }
Finish ==
    /\ pc = "meshes"
    /\ pc' = "done"
    /\ UNCHANGED <<textureDefs, materials, primitives, textures, textureMap,
                   materialMap, objContent, mtlContent, vertexOffset,
                   texCoordOffset, normalOffset, emittedBy>>
    /\ UNCHANGED <<compressVars, convertVars, serviceVars>>

(***************************************************************************)
(* Specification Spec: documents without materials or textures, every      *)
(* geometry shape.                                                         *)
(***************************************************************************)
Init ==
    /\ textureDefs = <<>>
    /\ materials = <<>>
    /\ Locals
    /\ NoCompression
    /\ NoConversion
    /\ NoService

NextPrimitive == \E p \in GeometryPrimitives({<<>>}) : ProcessPrimitive(p)

Next == Begin \/ NextPrimitive \/ Finish

Spec == Init /\ [][Next]_vars

(***************************************************************************)
(* Specification SpecMaterials: documents with textures and materials,     *)
(* primitives that are the single triangle or have no position.            *)
(***************************************************************************)
SimpleTextures == {TextureWithoutImage, TextureWith("image/png")}

\* a material with default factors, without a texture or with the last texture of
\* the document as its base-color texture
SimpleMaterials(defs) ==
    {PlainMaterial} \cup
    {[PlainMaterial EXCEPT !.baseColorTexture = <<t>>] :
        t \in {i \in Indices(defs) : i = Len(defs) - 1}}

MaterialRefs == {<<>>} \cup {<<i>> : i \in Indices(materials)}

InitMaterials ==
    /\ textureDefs \in SeqsUpTo(SimpleTextures, MaxTextures)
    /\ materials \in SeqsUpTo(SimpleMaterials(textureDefs), MaxMaterials)
    /\ Locals
    /\ NoCompression
    /\ NoConversion
    /\ NoService

NextMaterialPrimitive ==
    \E p \in {NoPositionPrimitive(m) : m \in MaterialRefs}
             \cup {TrianglePrimitive(m) : m \in MaterialRefs} :
        ProcessPrimitive(p)

NextMaterials == Begin \/ NextMaterialPrimitive \/ Finish

SpecMaterials == InitMaterials /\ [][NextMaterials]_vars

(***************************************************************************)
(* Specification SpecMapper: generateMTLMaterial applied to one material   *)
(* drawn from every combination of factors or of texture slots, over       *)
(* texture lists of every stored encoding.                                 *)
(***************************************************************************)
EncodedTextures ==
    {TextureWithoutImage, TextureWith("image/png"), TextureWith("image/jpeg"),
     TextureWith("image/webp")}

FactorValues == {0, 5, Fixed(1)}
Colors == {<<Fixed(1), Fixed(1), Fixed(1)>>, <<8, 4, 0>>}
Emissives == {<<0, 0, 0>>, <<0, 0, 3>>, <<5, 0, 0>>}

FactorMaterials ==
    {[PlainMaterial EXCEPT !.baseColorFactor = c \o <<a>>, !.metallicFactor = m,
                           !.roughnessFactor = r, !.emissiveFactor = e] :
       c \in Colors, a \in FactorValues, m \in FactorValues, r \in FactorValues,
       e \in Emissives}

Slots(defs) == {<<>>} \cup {<<t>> : t \in Indices(defs)}

\* a material that uses one texture in any subset of its five slots, or any two
\* textures in its base-color and metallic-roughness slots
SlotMaterials(defs) ==
    {[PlainMaterial EXCEPT !.baseColorTexture = IF b THEN <<t>> ELSE <<>>,
                           !.normalTexture = IF n THEN <<t>> ELSE <<>>,
                           !.metallicRoughnessTexture = IF mr THEN <<t>> ELSE <<>>,
                           !.emissiveTexture = IF e THEN <<t>> ELSE <<>>,
                           !.occlusionTexture = IF o THEN <<t>> ELSE <<>>] :
       t \in Indices(defs), b \in BOOLEAN, n \in BOOLEAN, mr \in BOOLEAN,
       e \in BOOLEAN, o \in BOOLEAN}
    \cup
    {[PlainMaterial EXCEPT !.baseColorTexture = b, !.metallicRoughnessTexture = mr] :
       b \in Slots(defs), mr \in Slots(defs)}

InitMapper ==
    /\ \/ /\ textureDefs = <<>>
          /\ materials \in {<<m>> : m \in FactorMaterials}
       \/ /\ textureDefs \in SeqsUpTo(EncodedTextures, MaxTextures)
          /\ materials \in {<<m>> : m \in SlotMaterials(textureDefs)}
    /\ Locals
    /\ NoCompression
    /\ NoConversion
    /\ NoService

NextMapperPrimitive ==
    /\ primitives = <<>>
    /\ ProcessPrimitive(TrianglePrimitive(<<0>>))

NextMapper == Begin \/ NextMapperPrimitive \/ Finish

SpecMapper == InitMapper /\ [][NextMapper]_vars

(***************************************************************************)
(* compressMesh.  The geometry of a Document is the sequence of its        *)
(* primitives; a primitive is its vertex list (a vertex is a value, equal  *)
(* values are duplicate vertices) and its optional index list.  Ratios are *)
(* in percent.  weld and simplify are transforms of the library: weld      *)
(* merges equal vertices and indexes the primitive, simplify keeps a       *)
(* number of triangles between its target and what it was given.  A        *)
(* transform that throws is taken to leave the document as it found it,    *)
(* the most favourable case for the catch block.                           *)
(***************************************************************************)
CompressionLevels == {"full", "compressed", "ultra"}

COMPRESSION_TIERS(level) ==
    CASE level = "full" ->
           [level |-> "full", decimation |-> 0, estimatedRatio |-> 500,
            premiumRequired |-> FALSE]
      [] level = "compressed" ->
           [level |-> "compressed", decimation |-> 60, estimatedRatio |-> 200,
            premiumRequired |-> FALSE]
      [] level = "ultra" ->
           [level |-> "ultra", decimation |-> 85, estimatedRatio |-> 75,
            premiumRequired |-> TRUE]

\* mutant: the early return is taken for no tier
NoCompressionNeededNever(tier) == tier.decimation < 0

\* if (tier.decimation === 0)
NoCompressionNeeded(tier) == tier.decimation = 0

\* ratio: 1 - tier.decimation
KeepRatio(tier) == 100 - tier.decimation

\* mutant: the weld is awaited before the try block is entered
InTryOnlySimplify(step) == step = "simplify"

\* the transforms awaited inside the try block
InTry(step) == step \in {"weld", "simplify"}

\* the index list of a primitive, 0..n-1 in order when it has none
IndexList(prim) ==
    IF prim.indices # <<>> THEN prim.indices[1]
    ELSE [k \in 1..Len(prim.vertices) |-> k - 1]

TriangleCount(prim) == Len(IndexList(prim)) \div 3

\* the distinct values of a sequence, in the order of their first occurrence
RECURSIVE Unique(_)
Unique(s) ==
    IF s = <<>> THEN <<>>
    ELSE LET r == Unique(SubSeq(s, 1, Len(s) - 1))
         IN  IF \E k \in DOMAIN r : r[k] = s[Len(s)] THEN r ELSE Append(r, s[Len(s)])

PositionIn(s, x) == (CHOOSE k \in DOMAIN s : s[k] = x) - 1

WeldPrimitive(prim) ==
    LET verts == Unique(prim.vertices)
        idx == IndexList(prim)
    IN  [vertices |-> verts,
         indices |-> << [k \in DOMAIN idx |->
                           PositionIn(verts, At(prim.vertices, idx[k]))] >>]

\* the simplifier's target: floor(ratio * indexCount / 3) triangles
SimplifyTarget(prim, ratio) == (ratio * Len(IndexList(prim))) \div 300

\* a primitive reduced to its first k triangles and the vertices they use
SimplifyPrimitive(prim, k) ==
    LET idx == SubSeq(IndexList(prim), 1, 3 * k)
        used == Unique(idx)
    IN  [vertices |-> [j \in DOMAIN used |-> At(prim.vertices, used[j])],
         indices |-> << [j \in DOMAIN idx |-> PositionIn(used, idx[j])] >>]

\* the triangle counts the simplifier may leave in each primitive
SimplifyOutcomes(doc, ratio) ==
    {ks \in [DOMAIN doc -> 0..3] :
        \A i \in DOMAIN doc : /\ SimplifyTarget(doc[i], ratio) <= ks[i]
                              /\ ks[i] <= TriangleCount(doc[i])}

Welded(doc) == [i \in DOMAIN doc |-> WeldPrimitive(doc[i])]

\* a primitive left without a triangle is disposed of
Simplified(doc, ks) ==
    SelectSeq([i \in DOMAIN doc |-> SimplifyPrimitive(doc[i], ks[i])],
              LAMBDA prim : prim.vertices # <<>>)

Report(stage, progress) == <<stage, progress>>

\* the catch block: log, report, return the document
Caught(step) ==
    [compress EXCEPT !.pc = "returned", !.failed = step,
                     !.outcome = IF InTry(step) THEN "resolved" ELSE "rejected",
                     !.progress = IF InTry(step)
                                  THEN Append(@, Report("Compression failed, using original", 100))
                                  ELSE @]

\* entry of compressMesh up to its first await, or its early return
CompressCall ==
    /\ compress.pc = "call"
    /\ LET tier == COMPRESSION_TIERS(compress.level)
       IN  IF NoCompressionNeeded(tier)
           THEN compress' = [compress EXCEPT
                    !.pc = "returned", !.outcome = "resolved",
                    !.progress = Append(@, Report("No compression applied", 100))]
           ELSE compress' = [compress EXCEPT
                    !.pc = "weld",
                    !.progress = Append(@, Report("Welding vertices", 20))]
    /\ UNCHANGED <<document, exportVars, convertVars, serviceVars>>

\* await document.transform(weld(...)) resolves
WeldResolves ==
    /\ compress.pc = "weld"
    /\ document' = Welded(document)
    /\ compress' = [compress EXCEPT
            !.pc = "simplify", !.applied = Append(@, "weld"),
            !.progress = Append(@, Report("Simplifying mesh", 60))]
    /\ UNCHANGED <<exportVars, convertVars, serviceVars>>

\* await document.transform(weld(...)) rejects
WeldRejects ==
    /\ compress.pc = "weld"
    /\ compress' = Caught("weld")
    /\ UNCHANGED <<document, exportVars, convertVars, serviceVars>>

\* await document.transform(simplify(...)) resolves
SimplifyResolves ==
    /\ compress.pc = "simplify"
    /\ \E ks \in SimplifyOutcomes(document, KeepRatio(COMPRESSION_TIERS(compress.level))) :
          document' = Simplified(document, ks)
    /\ compress' = [compress EXCEPT
            !.pc = "returned", !.outcome = "resolved",
            !.applied = Append(@, "simplify"),
            !.progress = Append(@, Report("Compression complete", 100))]
    /\ UNCHANGED <<exportVars, convertVars, serviceVars>>

\* await document.transform(simplify(...)) rejects
SimplifyRejects ==
    /\ compress.pc = "simplify"
    /\ compress' = Caught("simplify")
    /\ UNCHANGED <<document, exportVars, convertVars, serviceVars>>

(***************************************************************************)
(* Specification SpecCompress: compressMesh called with every level on     *)
(* documents of primitives with and without duplicate vertices, with and   *)
(* without an index list.                                                  *)
(***************************************************************************)
CompressPrimitives ==
    { [vertices |-> <<1, 2, 3>>, indices |-> <<>>],
      [vertices |-> <<1, 2, 3, 3, 2, 4>>, indices |-> <<>>],
      [vertices |-> <<1, 2, 3, 4>>, indices |-> << <<0, 1, 2, 2, 1, 3>> >>],
      [vertices |-> <<1, 2, 3, 3, 4>>, indices |-> << <<0, 1, 2, 3, 1, 4>> >>],
      [vertices |-> <<1, 2, 3, 4, 5>>,
       indices |-> << <<0, 1, 2, 0, 2, 3, 0, 3, 4>> >>] }

InitCompress ==
    /\ textureDefs = <<>>
    /\ materials = <<>>
    /\ Locals
    /\ NoConversion
    /\ NoService
    /\ document \in SeqsUpTo(CompressPrimitives, MaxPrims)
    /\ \E level \in CompressionLevels :
          compress = [pc |-> "call", level |-> level, before |-> document,
                      progress |-> <<>>, applied |-> <<>>, failed |-> "",
                      outcome |-> "pending"]

NextCompress ==
    CompressCall \/ WeldResolves \/ WeldRejects \/ SimplifyResolves \/ SimplifyRejects

SpecCompress == InitCompress /\ [][NextCompress]_vars

(***************************************************************************)
(* exportToOBJ as a function.  It awaits nothing, so a call of it runs     *)
(* from its first statement to its return in one step of the caller: the   *)
(* texture loop and the header, then the primitive loop over the           *)
(* document's primitives, on locals that each call declares anew.          *)
(***************************************************************************)
\* mutant: the running offset and the material names are module-level state
\* that a call inherits from the call that finished before it
FreshLocalsShared(c) ==
    LET fresh == [textures |-> <<>>, textureMap |-> <<>>, materialMap |-> <<>>,
                  objContent |-> <<>>, mtlContent |-> <<>>, vertexOffset |-> 0,
                  texCoordOffset |-> 0, normalOffset |-> 0]
        others == {d \in DOMAIN conv : d # c /\ conv[d].result # <<>>}
    IN  IF others = {} THEN fresh
        ELSE LET d == CHOOSE d \in others : TRUE
             IN  [fresh EXCEPT !.vertexOffset = conv[d].result[1].vertexOffset,
                               !.materialMap = conv[d].result[1].materialMap]

\* the locals declared by call c of exportToOBJ
FreshLocals(c) ==
    [textures |-> <<>>, textureMap |-> <<>>, materialMap |-> <<>>,
     objContent |-> <<>>, mtlContent |-> <<>>, vertexOffset |-> 0,
     texCoordOffset |-> 0, normalOffset |-> 0]

\* one iteration of the primitive loop on the locals st
ExportPrimitive(doc, st, p) ==
    LET matIndex == IndexOf(doc.materials, p.material[1])
        new == HasMaterial(p) /\ matIndex \notin DOMAIN st.materialMap
        matMap == IF new THEN (matIndex :> MaterialName(matIndex)) @@ st.materialMap
                  ELSE st.materialMap
        use == IF HasMaterial(p) THEN << <<"usemtl", matMap[matIndex]>> >> ELSE <<>>
    IN  [st EXCEPT
           !.materialMap = matMap,
           !.mtlContent = IF new
                          THEN @ \o GenerateMTLMaterial(At(doc.materials, matIndex),
                                       matIndex, st.textureMap, doc.textureDefs)
                          ELSE @,
           !.objContent = @ \o use \o GeometryLines(p, st.vertexOffset),
           !.vertexOffset = AdvanceOffset(p, @)]

RECURSIVE ExportPrimitives(_, _, _)
ExportPrimitives(doc, st, prims) ==
    IF prims = <<>> THEN st
    ELSE ExportPrimitives(doc, ExportPrimitive(doc, st, Head(prims)), Tail(prims))

ExportToOBJ(doc, locals) ==
    ExportPrimitives(doc,
        [locals EXCEPT !.textures = ExtractTextures(doc.textureDefs),
                       !.textureMap = ExtractTextureMap(doc.textureDefs),
                       !.objContent = @ \o ObjHeader],
        doc.primitives)

\* return { obj: objContent, mtl: mtlContent, textures }
Returned(locals) ==
    [obj |-> locals.objContent, mtl |-> locals.mtlContent, textures |-> locals.textures]

(***************************************************************************)
(* convertGLBtoOBJ(glbPath, onProgress).  A call is a record; its pc names *)
(* the await it is suspended at ("import", "readFile", "readBinary",       *)
(* "exportToOBJ") or how it settled ("resolved", "rejected").  The file    *)
(* system maps a path to the buffer stored there; a buffer is garbage or a *)
(* well-formed container of a Document, Draco-compressed or not.           *)
(***************************************************************************)
Undefined == "undefined"
Callback == "function"

\* onProgress?.(...): skipped for undefined, a call for a function, and a
\* TypeError for any other value
ProgressCallThrows(onProgress) == onProgress \notin {Undefined, Callback}

Progress(call, stage, progress) ==
    IF call.onProgress = Callback THEN Append(call.progress, <<stage, progress>>)
    ELSE call.progress

\* an Error instance with its message
ErrorOf(message) == [isError |-> TRUE, message |-> message]

\* the object thrown by the catch block of convertGLBtoOBJ
ConversionError(cause) ==
    [isError |-> FALSE, type |-> "export", message |-> "Failed to convert GLB to OBJ",
     details |-> IF cause.isError THEN cause.message ELSE "Unknown error"]

Garbage == [wellFormed |-> FALSE]
Glb(doc, draco) == [wellFormed |-> TRUE, draco |-> draco, document |-> doc]

\* a call from its first statement to its first await
Entered(glbPath, onProgress) ==
    LET call == [glbPath |-> glbPath, onProgress |-> onProgress, pc |-> "import",
                 progress |-> <<>>, warnings |-> <<>>, decoder |-> FALSE,
                 stages |-> <<>>, buffer |-> <<>>, result |-> <<>>, error |-> <<>>]
    IN  IF ProgressCallThrows(onProgress)
        THEN [call EXCEPT !.pc = "rejected",
                          !.error = <<ErrorOf("onProgress is not a function")>>]
        ELSE [call EXCEPT !.progress = Progress(call, "Loading GLB model", 0)]

\* a throw inside the try block
Thrown(call, cause) ==
    [call EXCEPT !.pc = "rejected", !.error = <<ConversionError(cause)>>]

\* mutant: a failed import of the Draco module is not caught on its own and
\* reaches the catch block of the conversion
DracoImportRethrows(call) ==
    IF env.draco THEN [call EXCEPT !.decoder = TRUE]
    ELSE Thrown(call, ErrorOf("Cannot find module 'draco3dgltf'"))

\* the inner try/catch around the import of the Draco module: the decoder is
\* registered, or a warning is logged
DracoImport(call) ==
    IF env.draco THEN [call EXCEPT !.decoder = TRUE]
    ELSE [call EXCEPT !.warnings =
             Append(@, "Draco compression not available, continuing without it")]

\* await import('draco3dgltf') settles; fs.readFile is called
ImportSettles(c) ==
    /\ conv[c].pc = "import"
    /\ LET call == DracoImport(conv[c])
       IN  IF call.pc = "rejected"
           THEN /\ conv' = [conv EXCEPT ![c] = call]
                /\ UNCHANGED reads
           ELSE /\ conv' = [conv EXCEPT ![c] =
                      [call EXCEPT !.pc = "readFile",
                                   !.progress = Progress(call, "Reading GLB file", 20)]]
                /\ reads' = Append(reads, call.glbPath)
    /\ UNCHANGED <<env, http, exportVars, compressVars, serviceVars>>

\* await fs.readFile(glbPath) settles; io.readBinary is called
ReadFileSettles(c) ==
    /\ conv[c].pc = "readFile"
    /\ conv' = [conv EXCEPT ![c] =
          IF conv[c].glbPath \in DOMAIN env.files
          THEN [@ EXCEPT !.pc = "readBinary",
                         !.buffer = <<env.files[conv[c].glbPath]>>,
                         !.progress = Progress(conv[c], "Parsing GLB document", 40)]
          ELSE Thrown(@, ErrorOf("ENOENT: no such file or directory, open '"
                                 \o conv[c].glbPath \o "'"))]
    /\ UNCHANGED <<env, reads, http, exportVars, compressVars, serviceVars>>

\* the progress reports of a call of exportToOBJ and of the statement before it
ExportProgress(call) ==
    IF call.onProgress = Callback
    THEN call.progress \o << <<"Extracting geometry and materials", 60>>,
                             <<"Exporting to OBJ format", 65>>,
                             <<"Writing OBJ geometry", 70>>,
                             <<"OBJ export complete", 85>> >>
    ELSE call.progress

\* await io.readBinary(...) settles; exportToOBJ is called and runs to its return
ReadBinarySettles(c) ==
    /\ conv[c].pc = "readBinary"
    /\ LET buffer == conv[c].buffer[1]
       IN  conv' = [conv EXCEPT ![c] =
              IF ~buffer.wellFormed
              THEN Thrown(@, ErrorOf("Unexpected GLB layout."))
              ELSE IF buffer.draco /\ ~conv[c].decoder
              THEN Thrown(@, ErrorOf("Please install extension dependency, draco3d.decoder."))
              ELSE [@ EXCEPT !.pc = "exportToOBJ",
                             !.stages = @ \o <<"load", "export">>,
                             !.progress = ExportProgress(conv[c]),
                             !.result = <<ExportToOBJ(buffer.document, FreshLocals(c))>>]]
    /\ UNCHANGED <<env, reads, http, exportVars, compressVars, serviceVars>>

\* await exportToOBJ(...) settles; the call returns
ExportSettles(c) ==
    /\ conv[c].pc = "exportToOBJ"
    /\ conv' = [conv EXCEPT ![c] =
          [@ EXCEPT !.pc = "resolved",
                    !.progress = Progress(conv[c], "Conversion complete", 100)]]
    /\ UNCHANGED <<env, reads, http, exportVars, compressVars, serviceVars>>

(***************************************************************************)
(* Specification SpecConvert: two calls of convertGLBtoOBJ in flight, for  *)
(* two different assets, each with an onProgress of its declared type,     *)
(* interleaved at their awaits.                                            *)
(***************************************************************************)
\* the single triangle, and a textured document of two primitives
TriangleDocument ==
    [textureDefs |-> <<>>, materials |-> <<>>,
     primitives |-> <<TrianglePrimitive(<<>>)>>]

TexturedDocument ==
    [textureDefs |-> <<TextureWith("image/jpeg")>>,
     materials |-> <<[PlainMaterial EXCEPT !.baseColorTexture = <<0>>]>>,
     primitives |-> <<TrianglePrimitive(<<0>>),
                      [material |-> <<0>>, position |-> PositionAttr(3),
                       texcoord |-> TexcoordAttr(3), normal |-> <<>>,
                       indices |-> IndexBuffer(3, 1)]>>]

Documents == {TriangleDocument, TexturedDocument}

Buffers == {Garbage} \cup {Glb(doc, draco) : doc \in Documents, draco \in BOOLEAN}

\* the file systems over a set of paths: each path missing or holding a buffer
FileSystems(paths) ==
    UNION {[present -> Buffers] : present \in SUBSET paths}

InitConvert ==
    /\ textureDefs = <<>>
    /\ materials = <<>>
    /\ Locals
    /\ NoCompression
    /\ NoService
    /\ \E files \in FileSystems({"a.glb", "b.glb"}), draco \in BOOLEAN :
          env = [files |-> files, draco |-> draco]
    /\ \E p1 \in {Undefined, Callback}, p2 \in {Undefined, Callback} :
          conv = <<Entered("a.glb", p1), Entered("b.glb", p2)>>
    /\ reads = <<>>
    /\ http = [pc |-> "idle"]

NextConvert ==
    \/ \E c \in DOMAIN conv : ImportSettles(c)
    \/ \E c \in DOMAIN conv : ReadFileSettles(c)
    \/ \E c \in DOMAIN conv : ReadBinarySettles(c)
    \/ \E c \in DOMAIN conv : ExportSettles(c)

SpecConvert == InitConvert /\ [][NextConvert]_vars

(***************************************************************************)
(* POST /api/convert-obj.  An asset identifier is the sequence of its      *)
(* characters, so that String.includes and the /\.glb$/i replacement are   *)
(* computed on it; a field the request body lacks is the empty sequence.   *)
(* An archive maps an entry name to the entry's content.                   *)
(***************************************************************************)
RECURSIVE Join(_)
Join(chars) == IF chars = <<>> THEN "" ELSE Head(chars) \o Join(Tail(chars))

\* String.prototype.includes
Includes(chars, sub) ==
    \E i \in 1..(Len(chars) - Len(sub) + 1) : SubSeq(chars, i, i + Len(sub) - 1) = sub

\* mutant: the backslash is not looked for
PathTraversalSlashOnly(modelId) ==
    Includes(modelId, <<".", ".">>) \/ Includes(modelId, <<"/">>)

\* modelId.includes('..') || modelId.includes('/') || modelId.includes('\\')
PathTraversal(modelId) ==
    \/ Includes(modelId, <<".", ".">>)
    \/ Includes(modelId, <<"/">>)
    \/ Includes(modelId, <<"\\">>)

LowerCase(char) ==
    CASE char = "G" -> "g" [] char = "L" -> "l" [] char = "B" -> "b" [] OTHER -> char

\* modelId.replace(/\.glb$/i, '')
BaseName(modelId) ==
    LET n == Len(modelId)
    IN  IF n >= 4 /\ [k \in 1..4 |-> LowerCase(modelId[n - 4 + k])] = <<".", "g", "l", "b">>
        THEN SubSeq(modelId, 1, n - 4)
        ELSE modelId

\* path.join(process.cwd(), 'public', 'models', modelId) for an identifier
\* without a separator or a parent-directory sequence
ModelPath(modelId) == "/app/public/models/" \o Join(modelId)

\* mutant: the material entry is named after the asset
ArchiveBaseNameMtl(modelId, output) ==
    LET baseName == Join(BaseName(modelId))
        names == {baseName \o ".obj", baseName \o ".mtl"} \cup DOMAIN output.textures
    IN  [name \in names |->
            IF name = baseName \o ".mtl" THEN output.mtl
            ELSE IF name \in DOMAIN output.textures THEN output.textures[name].data
            ELSE output.obj]

\* the entries of the JSZip after the zip.file calls, a later call of the same
\* name replacing the earlier one
Archive(modelId, output) ==
    LET baseName == Join(BaseName(modelId))
        names == {baseName \o ".obj", "model.mtl"} \cup DOMAIN output.textures
    IN  [name \in names |->
            IF name \in DOMAIN output.textures THEN output.textures[name].data
            ELSE IF name = "model.mtl" THEN output.mtl
            ELSE output.obj]

Json(status, body) == [status |-> status, body |-> body]

\* the body of the catch block's response
ErrorPayload(error) ==
    [error |-> "Failed to convert model",
     details |-> IF error.isError THEN error.message ELSE "Unknown error"]

ValidCompressionLevels == <<"full", "compressed", "ultra">>

Responded(response) == [http EXCEPT !.pc = "responded", !.response = <<response>>]

\* await request.json() settles and the body is destructured
RouteReceive ==
    /\ http.pc = "request"
    /\ http' = [http EXCEPT
            !.pc = "received",
            !.modelId = http.body.modelId,
            !.compressionLevel = IF http.body.compressionLevel = <<>> THEN "full"
                                 ELSE http.body.compressionLevel[1]]
    /\ UNCHANGED <<env, conv, reads, exportVars, compressVars, serviceVars>>

\* the validations, then the call of convertGLBtoOBJ up to its first await
RouteValidate ==
    /\ http.pc = "received"
    /\ IF http.modelId = <<>> \/ http.modelId[1] = <<>>
       THEN /\ http' = Responded(Json(400, [error |-> "modelId is required"]))
            /\ UNCHANGED conv
       ELSE IF PathTraversal(http.modelId[1])
       THEN /\ http' = Responded(Json(400,
                          [error |-> "Invalid modelId: path traversal not allowed"]))
            /\ UNCHANGED conv
       ELSE IF ~\E k \in DOMAIN ValidCompressionLevels :
                    ValidCompressionLevels[k] = http.compressionLevel
       THEN /\ http' = Responded(Json(400,
                          [error |-> "Invalid compressionLevel. Must be one of: full, compressed, ultra"]))
            /\ UNCHANGED conv
       ELSE LET tier == COMPRESSION_TIERS(http.compressionLevel)
                modelPath == ModelPath(http.modelId[1])
            IN  /\ conv' = Append(conv, Entered(modelPath, http.compressionLevel))
                /\ http' = [http EXCEPT
                       !.pc = "converting",
                       !.log = IF tier.premiumRequired
                               THEN Append(@, "Premium tier requested: " \o http.compressionLevel)
                               ELSE @,
                       !.modelPath = <<modelPath>>,
                       !.call = Len(conv) + 1]
    /\ UNCHANGED <<env, reads, exportVars, compressVars, serviceVars>>

\* await convertGLBtoOBJ(...) resolves: the archive and the response
RoutePackage ==
    /\ http.pc = "converting"
    /\ conv[http.call].pc = "resolved"
    /\ LET baseName == Join(BaseName(http.modelId[1]))
       IN  http' = Responded(
              [status |-> 200,
               headers |-> [ContentType |-> "application/zip",
                            ContentDisposition |->
                                "attachment; filename=\"" \o baseName \o ".obj.zip\""],
               archive |-> Archive(http.modelId[1], Returned(conv[http.call].result[1]))])
    /\ UNCHANGED <<env, conv, reads, exportVars, compressVars, serviceVars>>

\* await convertGLBtoOBJ(...) rejects: the catch block
RouteCatch ==
    /\ http.pc = "converting"
    /\ conv[http.call].pc = "rejected"
    /\ http' = Responded(Json(500, ErrorPayload(conv[http.call].error[1])))
    /\ UNCHANGED <<env, conv, reads, exportVars, compressVars, serviceVars>>

(***************************************************************************)
(* Specification SpecRoute: one request to the endpoint, for every         *)
(* identifier and level of the families below, on a file system that holds *)
(* every asset, holds garbage, or holds nothing.  The call at line 47      *)
(* hands the compression level to the parameter onProgress, so the call    *)
(* never reaches an await: the steps of the converter and the packaging    *)
(* are not enabled in any behaviour of this specification.                 *)
(***************************************************************************)
ModelIds ==
    { <<"a", ".", "g", "l", "b">>, <<"b", ".", "G", "L", "B">>, <<"c">>,
      <<"a", ".", "g", "l", "b", ".", "g", "l", "b">>,
      <<".", ".", "/", "a", ".", "g", "l", "b">>, <<"d", "/", "a">>,
      <<"d", "\\", "a">>, <<".", ".">>, <<"a", ".", ".", "g", "l", "b">>, <<>> }

AcceptedIds == {id \in ModelIds : id # <<>> /\ ~PathTraversal(id)}

RequestBodies ==
    { [modelId |-> id, compressionLevel |-> level] :
        id \in {<<>>} \cup {<<m>> : m \in ModelIds},
        level \in {<<>>, <<"full">>, <<"compressed">>, <<"ultra">>, <<"lossless">>} }

\* every asset present with the same content, or no asset present
AssetStores ==
    {<<>>} \cup { [path \in {ModelPath(id) : id \in AcceptedIds} |-> buffer] :
                    buffer \in {Garbage, Glb(TriangleDocument, FALSE),
                                Glb(TexturedDocument, FALSE)} }

Request(body) ==
    [pc |-> "request", body |-> body, modelId |-> <<>>, compressionLevel |-> "",
     log |-> <<>>, modelPath |-> <<>>, call |-> 0, response |-> <<>>]

InitRoute ==
    /\ textureDefs = <<>>
    /\ materials = <<>>
    /\ Locals
    /\ NoCompression
    /\ NoService
    /\ \E files \in AssetStores : env = [files |-> files, draco |-> TRUE]
    /\ conv = <<>>
    /\ reads = <<>>
    /\ \E body \in RequestBodies : http = Request(body)

NextRoute == RouteReceive \/ RouteValidate \/ RouteCatch

SpecRoute == InitRoute /\ [][NextRoute]_vars

(***************************************************************************)
(* Specification SpecSettled: the endpoint's continuation after the        *)
(* converter settles, for a converter called with the arguments its        *)
(* signature declares (the path and no onProgress): the packaging          *)
(* statements and the catch block as functions of the converter's result.  *)
(***************************************************************************)
InitSettled ==
    /\ textureDefs = <<>>
    /\ materials = <<>>
    /\ Locals
    /\ NoCompression
    /\ NoService
    /\ \E files \in AssetStores, draco \in BOOLEAN : env = [files |-> files, draco |-> draco]
    /\ reads = <<>>
    /\ \E id \in AcceptedIds, level \in {"full", "compressed", "ultra"} :
          /\ conv = <<Entered(ModelPath(id), Undefined)>>
          /\ http = [Request([modelId |-> <<id>>, compressionLevel |-> <<level>>])
                       EXCEPT !.pc = "converting", !.modelId = <<id>>,
                              !.compressionLevel = level,
                              !.modelPath = <<ModelPath(id)>>, !.call = 1]

NextSettled ==
    \/ \E c \in DOMAIN conv : ImportSettles(c)
    \/ \E c \in DOMAIN conv : ReadFileSettles(c)
    \/ \E c \in DOMAIN conv : ReadBinarySettles(c)
    \/ \E c \in DOMAIN conv : ExportSettles(c)
    \/ RoutePackage
    \/ RouteCatch

SpecSettled == InitSettled /\ [][NextSettled]_vars

(***************************************************************************)
(* BaseService.withRetry(operation, onProgress).  The call is a record;    *)
(* its pc names the await it is suspended at ("delay", "operation") or     *)
(* "returned".  An attempt of the operation resolves with data or rejects  *)
(* with a thrown value, an Error or not.  Delays are in milliseconds.      *)
(***************************************************************************)
RetryDelayDefault == 1000
MaxRetryAttempts == 5

\* what an operation throws: Error instances, or a value that is not an Error
Failures ==
    {ErrorOf("No content in response"), ErrorOf("fetch failed"),
     [isError |-> FALSE, value |-> "429"]}

\* error instanceof Error ? error : new Error(String(error))
AsError(error) == IF error.isError THEN error ELSE ErrorOf(error.value)

\* { success: false, error: lastError?.message || 'Unknown error occurred' }
Failure(lastError) ==
    [success |-> FALSE,
     error |-> IF lastError = <<>> \/ lastError[1].message = ""
               THEN "Unknown error occurred" ELSE lastError[1].message]

\* { success: true, data: result }
Success(data) == [success |-> TRUE, data |-> data]

\* this.retryDelay * attempt
RetryDelay(retryDelay, attempt) == retryDelay * attempt

\* mutant: the loop stops one attempt early
InLoopStrict(attempt, maxRetries) == attempt < maxRetries

\* attempt <= this.maxRetries
InLoop(attempt, maxRetries) == attempt <= maxRetries

\* from the loop test of an attempt to the next await, or to the return
StartAttempt(call) ==
    IF ~InLoop(call.attempt, call.maxRetries)
    THEN [call EXCEPT !.pc = "returned", !.result = <<Failure(call.lastError)>>]
    ELSE IF call.attempt > 0
    THEN [call EXCEPT !.pc = "delay",
                      !.progress = IF call.onProgress = Callback
                                   THEN Append(@, <<0, call.attempt, call.maxRetries>>)
                                   ELSE @,
                      !.delays = Append(@, RetryDelay(call.retryDelay, call.attempt))]
    ELSE [call EXCEPT !.pc = "operation", !.calls = @ + 1]

\* the call from its first statement to its first await
RetryEntered(maxRetries, retryDelay, onProgress) ==
    StartAttempt([pc |-> "entry", maxRetries |-> maxRetries, retryDelay |-> retryDelay,
                  onProgress |-> onProgress, attempt |-> 0, calls |-> 0,
                  delays |-> <<>>, outcomes |-> <<>>, lastError |-> <<>>,
                  progress |-> <<>>, logged |-> <<>>, result |-> <<>>])

\* await this.delay(...) settles; the operation is called
DelaySettles ==
    /\ retry.pc = "delay"
    /\ retry' = [retry EXCEPT !.pc = "operation", !.calls = @ + 1]
    /\ UNCHANGED <<jobs, assets, handlers, bulk, exportVars, compressVars, convertVars>>

\* await operation() resolves; the call returns
OperationResolves ==
    /\ retry.pc = "operation"
    /\ \E data \in {"image", "model"} :
          retry' = [retry EXCEPT !.pc = "returned",
                                 !.outcomes = Append(@, Success(data)),
                                 !.result = <<Success(data)>>]
    /\ UNCHANGED <<jobs, assets, handlers, bulk, exportVars, compressVars, convertVars>>

\* await operation() rejects; the catch block, then the next loop test
OperationRejects ==
    /\ retry.pc = "operation"
    /\ \E error \in Failures :
          retry' = StartAttempt(
              [retry EXCEPT !.lastError = <<AsError(error)>>,
                            !.logged = Append(@, <<retry.attempt + 1, AsError(error).message>>),
                            !.outcomes = Append(@, error),
                            !.attempt = @ + 1])
    /\ UNCHANGED <<jobs, assets, handlers, bulk, exportVars, compressVars, convertVars>>

(***************************************************************************)
(* Specification SpecRetry: one call of withRetry for every configurable   *)
(* number of retries, every outcome of every attempt.  A timer fires and   *)
(* an operation settles, so a step that is possible is eventually taken.   *)
(***************************************************************************)
InitRetry ==
    /\ textureDefs = <<>>
    /\ materials = <<>>
    /\ Locals
    /\ NoCompression
    /\ NoConversion
    /\ \E maxRetries \in 0..MaxRetryAttempts, onProgress \in {Undefined, Callback} :
          retry = RetryEntered(maxRetries, RetryDelayDefault, onProgress)
    /\ jobs = <<>>
    /\ assets = <<>>
    /\ handlers = <<>>
    /\ bulk = [pc |-> "idle"]

NextRetry == DelaySettles \/ OperationResolves \/ OperationRejects

SpecRetry == InitRetry /\ [][NextRetry]_vars /\ WF_vars(NextRetry)

(***************************************************************************)
(* The registries and the single-step route handlers (generate, remove-bg, *)
(* convert-3d).  createJob, updateJob and the registry part of saveAsset   *)
(* and saveModel are synchronous: each loads its registry file, changes    *)
(* the loaded value and writes it back within one step.  A handler is a    *)
(* record; its pc names the await it is suspended at ("request",           *)
(* "service", "fetch", "save") or "responded".  Job h and asset h are the  *)
(* job and the asset created by handler h (the code draws a uuid).         *)
(***************************************************************************)
MaxReports == 1

HandlerTypes == {"generate", "remove-bg", "convert-3d"}

\* the bodies a handler accepts or refuses
HandlerRequests(type) ==
    IF type = "generate" THEN {"none", "prompt"}
    ELSE {"none", "unknownAsset", "imageUrl"}

\* mutant: a handler keeps the registry it loaded first and never reads the
\* file again
LoadJobsRegistryCached(h, file) ==
    IF handlers[h].cache = <<>> THEN file ELSE handlers[h].cache[1]

\* loadJobsRegistry(), called by handler h when the registry file holds file
LoadJobsRegistry(h, file) == file

Job(id, type) ==
    [id |-> id, type |-> type, status |-> "pending", progress |-> 0,
     message |-> "", output |-> <<>>, completed |-> FALSE]

\* registry.jobs.push(job)
CreateJob(registry, id, type) == Append(registry, Job(id, type))

\* Object.assign(job, updates, ...) and the completedAt rule
Assign(job, updates) ==
    [f \in DOMAIN job |->
        IF f \in DOMAIN updates THEN updates[f]
        ELSE IF f = "completed"
        THEN job.completed \/ ("status" \in DOMAIN updates
                               /\ updates.status \in {"completed", "failed"})
        ELSE job[f]]

\* the registry updateJob writes back; unchanged when the id is not found
UpdateJob(registry, id, updates) ==
    [k \in DOMAIN registry |->
        IF registry[k].id = id /\ \A j \in 1..(k - 1) : registry[j].id # id
        THEN Assign(registry[k], updates) ELSE registry[k]]

Asset(id, type) == [id |-> id, type |-> type]

AssetTypeOf(type) ==
    IF type = "generate" THEN "generated"
    ELSE IF type = "remove-bg" THEN "no-bg" ELSE "model"

Handler(type, request) ==
    [type |-> type, request |-> request, pc |-> "request", jobId |-> <<>>,
     expected |-> <<>>, reports |-> 0, saved |-> <<>>, saveError |-> <<>>,
     cache |-> <<>>, response |-> <<>>]

\* handler h after an updateJob of its job
Updated(handler, updates, registry) ==
    [handler EXCEPT !.expected = <<Assign(@[1], updates)>>, !.cache = <<registry>>]

\* await request.json() settles: validation, createJob, updateJob, service call
HandlerReceives(h) ==
    /\ handlers[h].pc = "request"
    /\ IF handlers[h].request = "none"
       THEN /\ handlers' = [handlers EXCEPT ![h] =
                  [@ EXCEPT !.pc = "responded", !.response = <<[status |-> 400]>>]]
            /\ UNCHANGED jobs
       ELSE IF handlers[h].request = "unknownAsset"
       THEN /\ handlers' = [handlers EXCEPT ![h] =
                  [@ EXCEPT !.pc = "responded", !.response = <<[status |-> 404]>>]]
            /\ UNCHANGED jobs
       ELSE LET updates == [status |-> "processing", progress |-> 10, message |-> "Starting"]
                created == CreateJob(LoadJobsRegistry(h, jobs), h, handlers[h].type)
                registry == UpdateJob(LoadJobsRegistry(h, created), h, updates)
            IN  /\ jobs' = registry
                /\ handlers' = [handlers EXCEPT ![h] =
                      Updated([@ EXCEPT !.pc = "service", !.jobId = <<h>>,
                                        !.expected = <<Job(h, handlers[h].type)>>],
                              updates, registry)]
    /\ UNCHANGED <<retry, assets, bulk, exportVars, compressVars, convertVars>>

\* the progress callback of the service: updateJob(job.id, { progress, message })
ServiceReports(h) ==
    /\ handlers[h].pc = "service"
    /\ handlers[h].reports < MaxReports
    /\ LET updates == [progress |-> 30, message |-> "Working"]
           registry == UpdateJob(LoadJobsRegistry(h, jobs), h, updates)
       IN  /\ jobs' = registry
           /\ handlers' = [handlers EXCEPT ![h] =
                 Updated([@ EXCEPT !.reports = @ + 1], updates, registry)]
    /\ UNCHANGED <<retry, assets, bulk, exportVars, compressVars, convertVars>>

\* saveAsset from its registry statements on: the file is written, the asset
\* pushed and the registry saved, or writeFileSync throws
Saves(handler, h, written) ==
    IF written THEN [handler EXCEPT !.pc = "save", !.saved = <<h>>]
    ELSE [handler EXCEPT !.pc = "save", !.saveError = <<ErrorOf("ENOSPC: no space left on device")>>]

\* await service settles: the failure branch, or the call of the save function
ServiceSettles(h) ==
    /\ handlers[h].pc = "service"
    /\ \E result \in {Success("data"), Failure(<<ErrorOf("fetch failed")>>)},
          written \in BOOLEAN :
          IF ~result.success
          THEN LET updates == [status |-> "failed", progress |-> 100,
                               message |-> result.error,
                               output |-> <<[error |-> result.error]>>]
                   registry == UpdateJob(LoadJobsRegistry(h, jobs), h, updates)
               IN  /\ jobs' = registry
                   /\ handlers' = [handlers EXCEPT ![h] =
                         Updated([@ EXCEPT !.pc = "responded",
                                           !.response = <<[status |-> 500, jobId |-> h]>>],
                                 updates, registry)]
                   /\ UNCHANGED assets
          ELSE IF handlers[h].type = "generate"
          THEN /\ handlers' = [handlers EXCEPT ![h] = Saves(@, h, written)]
               /\ assets' = IF written
                            THEN Append(assets, Asset(h, AssetTypeOf(handlers[h].type)))
                            ELSE assets
               /\ UNCHANGED jobs
          ELSE /\ handlers' = [handlers EXCEPT ![h] = [@ EXCEPT !.pc = "fetch"]]
               /\ UNCHANGED <<jobs, assets>>
    /\ UNCHANGED <<retry, bulk, exportVars, compressVars, convertVars>>

\* await fetch(url) in saveModel and saveAssetFromUrl settles: the response is
\* not ok and the function throws, or the save goes on as in saveAsset
FetchSettles(h) ==
    /\ handlers[h].pc = "fetch"
    /\ \E ok \in BOOLEAN, written \in BOOLEAN :
          IF ~ok
          THEN /\ handlers' = [handlers EXCEPT ![h] =
                     [@ EXCEPT !.pc = "save",
                               !.saveError = <<ErrorOf("Failed to fetch model from URL")>>]]
               /\ UNCHANGED assets
          ELSE /\ handlers' = [handlers EXCEPT ![h] = Saves(@, h, written)]
               /\ assets' = IF written
                            THEN Append(assets, Asset(h, AssetTypeOf(handlers[h].type)))
                            ELSE assets
    /\ UNCHANGED <<retry, jobs, bulk, exportVars, compressVars, convertVars>>

\* await save settles: updateJob completed and the response, or the catch block
SaveSettles(h) ==
    /\ handlers[h].pc = "save"
    /\ IF handlers[h].saveError # <<>>
       THEN /\ handlers' = [handlers EXCEPT ![h] =
                  [@ EXCEPT !.pc = "responded",
                            !.response = <<[status |-> 500,
                                            error |-> handlers[h].saveError[1].message]>>]]
            /\ UNCHANGED jobs
       ELSE LET updates == [status |-> "completed", progress |-> 100,
                            message |-> "Done",
                            output |-> <<[assetId |-> handlers[h].saved[1]]>>]
                registry == UpdateJob(LoadJobsRegistry(h, jobs), h, updates)
            IN  /\ jobs' = registry
                /\ handlers' = [handlers EXCEPT ![h] =
                      Updated([@ EXCEPT !.pc = "responded",
                                        !.response = <<[status |-> 200, jobId |-> h]>>],
                              updates, registry)]
    /\ UNCHANGED <<retry, assets, bulk, exportVars, compressVars, convertVars>>

(***************************************************************************)
(* Specification SpecHandlers: two requests to single-step routes in one   *)
(* server process, interleaved at their awaits.                            *)
(***************************************************************************)
InitHandlers ==
    /\ textureDefs = <<>>
    /\ materials = <<>>
    /\ Locals
    /\ NoCompression
    /\ NoConversion
    /\ retry = [pc |-> "idle"]
    /\ jobs = <<>>
    /\ assets = <<>>
    /\ \E t1 \in HandlerTypes, t2 \in HandlerTypes :
          \E r1 \in HandlerRequests(t1), r2 \in HandlerRequests(t2) :
              handlers = <<Handler(t1, r1), Handler(t2, r2)>>
    /\ bulk = [pc |-> "idle"]

NextHandlers ==
    \/ \E h \in DOMAIN handlers : HandlerReceives(h)
    \/ \E h \in DOMAIN handlers : ServiceReports(h)
    \/ \E h \in DOMAIN handlers : ServiceSettles(h)
    \/ \E h \in DOMAIN handlers : FetchSettles(h)
    \/ \E h \in DOMAIN handlers : SaveSettles(h)

SpecHandlers == InitHandlers /\ [][NextHandlers]_vars

(***************************************************************************)
(* The bulk route.  Items are numbered from 0.  The request is a record;   *)
(* its pc is "request" (awaiting the body), "batch" (awaiting Promise.all  *)
(* of the current batch) or "responded".  Each item of a batch runs in its *)
(* own async callback, which settles with a result whether processItem     *)
(* returns success, returns failure or throws.  The parent job is job 0.   *)
(***************************************************************************)
MaxItems == 4
MaxConcurrency == 3

ItemOutcomes == {"success", "failure", "throws"}

\* mutant: the slice takes one item too many
BatchOneMore(i, concurrency, n) == {k \in 0..(n - 1) : i <= k /\ k <= i + concurrency}

\* items.slice(i, i + concurrency), as indices
Batch(i, concurrency, n) == {k \in 0..(n - 1) : i <= k /\ k < i + concurrency}

\* what the callback of item index returns
ItemResult(index, outcome) ==
    IF outcome = "success" THEN [index |-> index, success |-> TRUE, assetId |-> index]
    ELSE IF outcome = "failure"
    THEN [index |-> index, success |-> FALSE, error |-> "Failed to generate image"]
    ELSE [index |-> index, success |-> FALSE, error |-> "fetch failed"]

\* Math.round((done / n) * 100)
RoundedPercent(done, n) == (200 * done + n) \div (2 * n)

\* the indices of a set in increasing order
RECURSIVE Ascending(_)
Ascending(S) ==
    IF S = {} THEN <<>>
    ELSE LET least == CHOOSE k \in S : \A j \in S : k <= j
         IN  <<least>> \o Ascending(S \ {least})

\* failed === items.length ? 'failed' : 'completed'
ParentStatus(failed, n) == IF failed = n THEN "failed" ELSE "completed"

BulkRequest(n, steps, concurrency) ==
    [pc |-> "request", n |-> n, steps |-> steps, concurrency |-> concurrency,
     i |-> 0, inFlight |-> {}, batchResults |-> <<>>, outcomes |-> <<>>,
     results |-> <<>>, started |-> <<>>, response |-> <<>>]

\* await request.json() settles: validation, the parent job, the first batch
BulkReceives ==
    /\ bulk.pc = "request"
    /\ IF bulk.n = 0 \/ bulk.steps = 0
       THEN /\ bulk' = [bulk EXCEPT !.pc = "responded", !.response = <<[status |-> 400]>>]
            /\ UNCHANGED jobs
       ELSE LET batch == Batch(0, bulk.concurrency, bulk.n)
            IN  /\ jobs' = UpdateJob(CreateJob(jobs, 0, "bulk"), 0,
                              [status |-> "processing", progress |-> 0,
                               message |-> "Processing"])
                /\ bulk' = [bulk EXCEPT !.pc = "batch", !.inFlight = batch,
                                        !.started = Append(@, batch)]
    /\ UNCHANGED <<retry, assets, handlers, exportVars, compressVars, convertVars>>

\* the callback of one item in flight settles
ItemSettles ==
    /\ bulk.pc = "batch"
    /\ \E index \in bulk.inFlight, outcome \in ItemOutcomes :
          bulk' = [bulk EXCEPT
                      !.inFlight = @ \ {index},
                      !.outcomes = (index :> outcome) @@ @,
                      !.batchResults = (index :> ItemResult(index, outcome)) @@ @]
    /\ UNCHANGED <<retry, jobs, assets, handlers, exportVars, compressVars, convertVars>>

\* await Promise.all(batchPromises) settles: the results are pushed, the job
\* updated, and the next batch started or the response returned
BatchSettles ==
    /\ bulk.pc = "batch"
    /\ bulk.inFlight = {}
    /\ LET batch == Batch(bulk.i, bulk.concurrency, bulk.n)
           results == bulk.results \o [k \in 1..Cardinality(batch) |->
                                          bulk.batchResults[Ascending(batch)[k]]]
           done == bulk.i + Cardinality(batch)
           progressed == UpdateJob(jobs, 0, [progress |-> RoundedPercent(done, bulk.n),
                                             message |-> "Processed"])
           next == bulk.i + bulk.concurrency
           successful == Cardinality({k \in DOMAIN results : results[k].success})
           failed == Cardinality({k \in DOMAIN results : ~results[k].success})
       IN  IF next < bulk.n
           THEN /\ jobs' = progressed
                /\ bulk' = [bulk EXCEPT !.i = next, !.results = results,
                                        !.batchResults = <<>>,
                                        !.inFlight = Batch(next, bulk.concurrency, bulk.n),
                                        !.started = Append(@, Batch(next, bulk.concurrency, bulk.n))]
           ELSE /\ jobs' = UpdateJob(progressed, 0,
                              [status |-> ParentStatus(failed, bulk.n), progress |-> 100,
                               message |-> "Completed",
                               output |-> <<[results |-> results]>>])
                /\ bulk' = [bulk EXCEPT !.pc = "responded", !.i = next,
                                        !.results = results, !.batchResults = <<>>,
                                        !.response = <<[status |-> 200, jobId |-> 0,
                                                        summary |-> [total |-> bulk.n,
                                                                     successful |-> successful,
                                                                     failed |-> failed],
                                                        results |-> results]>>]
    /\ UNCHANGED <<retry, assets, handlers, exportVars, compressVars, convertVars>>

(***************************************************************************)
(* Specification SpecBulk: one bulk request for every number of items and  *)
(* every batch size up to the bounds, every outcome of every item, the     *)
(* items of a batch settling in every order.                               *)
(***************************************************************************)
InitBulk ==
    /\ textureDefs = <<>>
    /\ materials = <<>>
    /\ Locals
    /\ NoCompression
    /\ NoConversion
    /\ retry = [pc |-> "idle"]
    /\ jobs = <<>>
    /\ assets = <<>>
    /\ handlers = <<>>
    /\ \E n \in 0..MaxItems, steps \in 0..1, concurrency \in 1..MaxConcurrency :
          bulk = BulkRequest(n, steps, concurrency)

NextBulk == BulkReceives \/ ItemSettles \/ BatchSettles

SpecBulk == InitBulk /\ [][NextBulk]_vars

(***************************************************************************)
(* Reading the output back: the lines of a buffer by keyword, the n-th     *)
(* line of a keyword (the numbering an OBJ reader gives v, vt and vn       *)
(* lines), the blocks of the material buffer.                              *)
(***************************************************************************)
LinesTagged(content, tag) == {i \in DOMAIN content : content[i][1] = tag}

NthTagged(content, tag, n) ==
    LET S == LinesTagged(content, tag)
    IN  IF n \in 1..Cardinality(S)
        THEN CHOOSE i \in S : Cardinality({j \in S : j <= i}) = n
        ELSE 0

\* the rank of line pos among the lines of its keyword written by the same primitive
LocalRank(tag, pos) ==
    Cardinality({j \in LinesTagged(objContent, tag) :
                    j <= pos /\ emittedBy[j] = emittedBy[pos]})

FaceCorners(i) == {objContent[i][2], objContent[i][3], objContent[i][4]}

PrimitiveCount(k) ==
    IF primitives[k].position # <<>> THEN primitives[k].position[1].count ELSE 0

\* the number of vertices of the primitives before the k-th
OffsetBefore(k) == SumSeq([j \in 1..(k - 1) |-> PrimitiveCount(j)])

Referenced(i) == \E k \in DOMAIN primitives : primitives[k].material = <<i>>

BlocksNamed(i) ==
    {j \in LinesTagged(mtlContent, "newmtl") : mtlContent[j][2] = MaterialName(i)}

HasBlock(i) == BlocksNamed(i) # {}

\* the lines of the block of material i: from its newmtl line to the next one
BlockLines(i) ==
    LET start == CHOOSE j \in BlocksNamed(i) : \A k \in BlocksNamed(i) : j <= k
        later == {j \in LinesTagged(mtlContent, "newmtl") : j > start}
        stop == IF later = {} THEN Len(mtlContent)
                ELSE (CHOOSE j \in later : \A k \in later : j <= k) - 1
    IN  start..stop

BlockTagged(i, tag) == {j \in BlockLines(i) : mtlContent[j][1] = tag}

TextureSlots(m) ==
    {m.baseColorTexture, m.normalTexture, m.metallicRoughnessTexture,
     m.emissiveTexture, m.occlusionTexture}

TextureReferenced(t) ==
    \E i \in Indices(materials) : <<t>> \in TextureSlots(At(materials, i))

(***************************************************************************)
(* The claims.                                                             *)
(***************************************************************************)

\* C1: every position index of a face record of a primitive lies in
\* [offset+1, offset+N], N the primitive's vertex count and offset the sum of
\* the vertex counts of the primitives before it, for indexed and non-indexed
\* primitives alike.
C1_FaceIndexInRange ==
    \A i \in LinesTagged(objContent, "f") : \A c \in FaceCorners(i) :
        c.v \in (OffsetBefore(emittedBy[i]) + 1) ..
                (OffsetBefore(emittedBy[i]) + PrimitiveCount(emittedBy[i]))

\* C2: in every face record whose position index names a vertex of its own
\* primitive, the texcoord index names the vt line written for that vertex of
\* that primitive, and the normal index the vn line written for it.
C2_NamesLineOfSameVertex(tag, n, i, c) ==
    LET pos == NthTagged(objContent, tag, n)
        vpos == NthTagged(objContent, "v", c.v)
    IN  /\ pos # 0
        /\ emittedBy[pos] = emittedBy[i]
        /\ LocalRank(tag, pos) = LocalRank("v", vpos)

C2_AttributeIndicesMatch ==
    \A i \in LinesTagged(objContent, "f") : \A c \in FaceCorners(i) :
        LET vpos == NthTagged(objContent, "v", c.v)
        IN  (vpos # 0 /\ emittedBy[vpos] = emittedBy[i]) =>
              /\ "vt" \in DOMAIN c => C2_NamesLineOfSameVertex("vt", c.vt, i, c)
              /\ "vn" \in DOMAIN c => C2_NamesLineOfSameVertex("vn", c.vn, i, c)

\* C3: a primitive with N position vertices contributes exactly N position
\* lines, the number of position lines is the sum of the vertex counts of the
\* primitives that have a position, and the running vertex offset after each
\* primitive is the number of position lines written so far.
C3_PositionLineCount ==
    /\ \A k \in DOMAIN primitives :
          Cardinality({i \in LinesTagged(objContent, "v") : emittedBy[i] = k})
            = PrimitiveCount(k)
    /\ Cardinality(LinesTagged(objContent, "v"))
          = SumSeq([k \in DOMAIN primitives |-> PrimitiveCount(k)])
    /\ vertexOffset = Cardinality(LinesTagged(objContent, "v"))

C3_Witness ==
    /\ Len(primitives) = 2
    /\ PrimitiveCount(1) = 3
    /\ PrimitiveCount(2) = 2
    /\ vertexOffset = 5
    /\ Cardinality(LinesTagged(objContent, "v")) = 5

\* C4: a primitive with no position attribute adds no record of any kind to
\* the geometry buffer and leaves the running vertex offset unchanged, whether
\* or not it references a material.
C4_SkippedPrimitiveWritesNothing ==
    [][(/\ Len(primitives') = Len(primitives) + 1
        /\ primitives'[Len(primitives')].position = <<>>)
       => (objContent' = objContent /\ vertexOffset' = vertexOffset)]_vars

\* C5: the encoding of every face record of a primitive is the one of the
\* primitive's attribute set (position only, with texcoord, with normal, with
\* both), on the indexed and on the non-indexed path.
C5_ExpectedFields(p) ==
    {"v"} \cup (IF p.texcoord # <<>> THEN {"vt"} ELSE {})
          \cup (IF p.normal # <<>> THEN {"vn"} ELSE {})

C5_FaceEncodingByAttributes ==
    \A i \in LinesTagged(objContent, "f") : \A c \in FaceCorners(i) :
        DOMAIN c = C5_ExpectedFields(primitives[emittedBy[i]])

C5_Witness ==
    /\ Len(primitives) = 2
    /\ primitives[1].indices # <<>>
    /\ Len(primitives[1].indices[1]) = 6
    /\ primitives[1].texcoord # <<>> /\ primitives[1].normal # <<>>
    /\ primitives[2].position # <<>> /\ primitives[2].indices = <<>>
    /\ primitives[2].texcoord = <<>> /\ primitives[2].normal # <<>>
    /\ Cardinality(LinesTagged(objContent, "f")) = 3

\* C6: the material buffer holds exactly one newmtl block for each material
\* index referenced by at least one primitive, and none for the others, so two
\* materials of equal value at different indices give two blocks.
C6_OneBlockPerReferencedIndex ==
    /\ \A i \in Indices(materials) :
          Cardinality(BlocksNamed(i)) = IF Referenced(i) THEN 1 ELSE 0
    /\ Cardinality(LinesTagged(mtlContent, "newmtl"))
          = Cardinality({i \in Indices(materials) : Referenced(i)})

C6_Witness ==
    /\ pc = "done"
    /\ Len(materials) = 2
    /\ materials[1] = materials[2]
    /\ Referenced(0) /\ Referenced(1)
    /\ HasBlock(0) /\ HasBlock(1)

\* C7: a material block has an opacity line if and only if the alpha of
\* baseColorFactor is below 1, and then exactly one, whose value is the alpha.
C7_OpacityIffTranslucent ==
    \A i \in Indices(materials) : HasBlock(i) =>
        LET alpha == At(materials, i).baseColorFactor[4]
        IN  IF alpha < Fixed(1)
            THEN /\ Cardinality(BlockTagged(i, "d")) = 1
                 /\ \A j \in BlockTagged(i, "d") : mtlContent[j] = <<"d", alpha>>
            ELSE BlockTagged(i, "d") = {}

C7_Witness ==
    /\ HasBlock(0)
    /\ At(materials, 0).baseColorFactor[4] = 5
    /\ \E j \in BlockTagged(0, "d") : mtlContent[j] = <<"d", 5>>

\* C8 as claimed: every material that has a metallic-roughness texture has
\* exactly one map_Pm and one map_Pr line in its block, naming the same file.
C8_AlwaysTwoReferences ==
    \A i \in Indices(materials) :
        (HasBlock(i) /\ At(materials, i).metallicRoughnessTexture # <<>>) =>
            /\ Cardinality(BlockTagged(i, "map_Pm")) = 1
            /\ Cardinality(BlockTagged(i, "map_Pr")) = 1
            /\ \A j \in BlockTagged(i, "map_Pm") : \A k \in BlockTagged(i, "map_Pr") :
                  mtlContent[j][2] = mtlContent[k][2]

\* C8 as amended: a material whose metallic-roughness texture has an image has
\* exactly one map_Pm and one map_Pr line, both naming the file generated for
\* that texture; one whose metallic-roughness texture has no image has neither.
C8_TwoReferencesWhenImage ==
    \A i \in Indices(materials) :
        (HasBlock(i) /\ At(materials, i).metallicRoughnessTexture # <<>>) =>
            LET t == At(materials, i).metallicRoughnessTexture[1]
            IN  IF At(textureDefs, t).image # <<>>
                THEN /\ Cardinality(BlockTagged(i, "map_Pm")) = 1
                     /\ Cardinality(BlockTagged(i, "map_Pr")) = 1
                     /\ \A j \in BlockTagged(i, "map_Pm") \cup BlockTagged(i, "map_Pr") :
                           /\ mtlContent[j][2] = textureMap[t]
                           /\ mtlContent[j][2] \in DOMAIN textures
                ELSE /\ BlockTagged(i, "map_Pm") = {}
                     /\ BlockTagged(i, "map_Pr") = {}

C8_Witness ==
    /\ HasBlock(0)
    /\ At(materials, 0).metallicRoughnessTexture = <<1>>
    /\ At(textureDefs, 1).image # <<>>
    /\ \E j \in BlockTagged(0, "map_Pm") : \E k \in BlockTagged(0, "map_Pr") :
          mtlContent[j][2] = mtlContent[k][2]

\* C9: every material block has one Ka and one Kd line, both the rgb of
\* baseColorFactor, one Ks line with metallicFactor three times, one illum
\* line with the constant 2, and a Ke line if and only if an emissive channel
\* is above 0.
C9_ScalarLines ==
    \A i \in Indices(materials) : HasBlock(i) =>
        LET m == At(materials, i)
            rgb == SubSeq(m.baseColorFactor, 1, 3)
            only(tag, line) ==
                /\ Cardinality(BlockTagged(i, tag)) = 1
                /\ \A j \in BlockTagged(i, tag) : mtlContent[j] = line
        IN  /\ only("Ka", <<"Ka">> \o rgb)
            /\ only("Kd", <<"Kd">> \o rgb)
            /\ only("Ks", <<"Ks", m.metallicFactor, m.metallicFactor, m.metallicFactor>>)
            /\ only("illum", <<"illum", 2>>)
            /\ IF \E c \in 1..3 : m.emissiveFactor[c] > 0
               THEN only("Ke", <<"Ke">> \o m.emissiveFactor)
               ELSE BlockTagged(i, "Ke") = {}

C9_Witness ==
    /\ HasBlock(0)
    /\ At(materials, 0).emissiveFactor = <<0, 0, 3>>
    /\ At(materials, 0).metallicFactor = 5
    /\ At(materials, 0).baseColorFactor = <<8, 4, 0, 5>>
    /\ \E j \in BlockTagged(0, "Ke") : mtlContent[j] = <<"Ke", 0, 0, 3>>
    /\ \E j \in BlockTagged(0, "Ks") : mtlContent[j] = <<"Ks", 5, 5, 5>>

\* C10: the returned texture map has an entry only for textures referenced
\* by at least one material of the document.
C10_OnlyReferencedTextures ==
    \A n \in DOMAIN textures :
        \E t \in DOMAIN textureMap : textureMap[t] = n /\ TextureReferenced(t)

\* C11: every file name in a map-reference line of the material buffer is a
\* key of the returned texture map, and it is the name texture_<i>.<ext> of the
\* texture at position i of the texture list that the slot of that line's tag
\* references, <ext> being the extension of that texture's stored encoding.
C11_SlotOfTag(m, tag) ==
    CASE tag = "map_Kd" -> m.baseColorTexture
      [] tag = "map_Bump" -> m.normalTexture
      [] tag \in {"map_Pm", "map_Pr"} -> m.metallicRoughnessTexture
      [] tag = "map_Ke" -> m.emissiveTexture
      [] tag = "map_Ka" -> m.occlusionTexture

C11_MapTags == {"map_Kd", "map_Bump", "map_Pm", "map_Pr", "map_Ke", "map_Ka"}

C11_NamesAgree ==
    \A i \in Indices(materials) : HasBlock(i) =>
        \A tag \in C11_MapTags : \A j \in BlockTagged(i, tag) :
            LET slot == C11_SlotOfTag(At(materials, i), tag)
            IN  /\ mtlContent[j][2] \in DOMAIN textures
                /\ slot # <<>>
                /\ slot[1] \in Indices(textureDefs)
                /\ mtlContent[j][2] =
                     TextureName(slot[1], Extension(At(textureDefs, slot[1]).mimeType))

C11_Witness ==
    /\ HasBlock(0)
    /\ At(materials, 0).baseColorTexture = <<1>>
    /\ At(materials, 0).metallicRoughnessTexture = <<0>>
    /\ \E j \in BlockTagged(0, "map_Kd") : mtlContent[j][2] = "texture_1.jpg"
    /\ \E j \in BlockTagged(0, "map_Pm") : mtlContent[j][2] = "texture_0.webp"
    /\ {"texture_1.jpg", "texture_0.webp"} \subseteq DOMAIN textures

\* the vertex count and the face count of each primitive of a document
VertexCounts(doc) == [i \in DOMAIN doc |-> Len(doc[i].vertices)]

FaceCounts(doc) == [i \in DOMAIN doc |-> TriangleCount(doc[i])]

\* C12: when the simplification stage has failed (in weld or in simplify),
\* the Document compressMesh returns is the Document as it was before the
\* call: no effect of an earlier sub-step, such as a completed weld, remains.
\* The formula states it of the vertex and face counts of the primitives.
C12_FailureLeavesInputUnchanged ==
    (compress.pc = "returned" /\ compress.failed # "") =>
        /\ VertexCounts(document) = VertexCounts(compress.before)
        /\ FaceCounts(document) = FaceCounts(compress.before)

C14_FullIsIdentity ==
    (compress.pc # "idle" /\ compress.level = "full") =>
        /\ KeepRatio(COMPRESSION_TIERS("full")) = 100
        /\ compress.pc \in {"call", "returned"}
        /\ compress.applied = <<>>
        /\ VertexCounts(document) = VertexCounts(compress.before)
        /\ FaceCounts(document) = FaceCounts(compress.before)
        /\ document = compress.before

C14_Witness ==
    /\ compress.pc = "returned"
    /\ compress.level = "full"
    /\ compress.outcome = "resolved"
    /\ Len(document) = 2
    /\ document[1].vertices = <<1, 2, 3, 3, 2, 4>>
    /\ Welded(document) # document
    /\ compress.progress = <<Report("No compression applied", 100)>>

\* the response of the endpoint, the converter call it made, and the stages
\* its conversion has run
Response == http.response[1]

RouteCall == conv[http.call]

StagesRun ==
    RouteCall.stages \o (IF "archive" \in DOMAIN Response THEN <<"package">> ELSE <<>>)

\* C15: a conversion requested with a compression level, of an asset that is
\* a well-formed container, has run, when the endpoint answers, the stages
\* load, simplify, export, package in this order for the levels compressed and
\* ultra, and load, export, package for the level full.
C15_StagesInOrder ==
    (/\ http.pc = "responded"
     /\ http.call # 0
     /\ RouteCall.glbPath \in DOMAIN env.files
     /\ env.files[RouteCall.glbPath].wellFormed) =>
        StagesRun = IF http.compressionLevel = "full"
                    THEN <<"load", "export", "package">>
                    ELSE <<"load", "simplify", "export", "package">>

\* C16: a conversion whose source cannot be read or is not a well-formed
\* container fails with an error of type 'load', and every error a conversion
\* fails with has a type tag and a message.
C16_LoadErrorTagged ==
    \A c \in DOMAIN conv : conv[c].pc = "rejected" =>
        LET error == conv[c].error[1]
            path == conv[c].glbPath
        IN  /\ "type" \in DOMAIN error
            /\ "message" \in DOMAIN error
            /\ (path \notin DOMAIN env.files \/ ~env.files[path].wellFormed)
                  => error.type = "load"

\* C17: when the conversion has failed, the endpoint answers with a
\* non-success status and a payload that carries the type and the message of
\* the error and, when the error has them, its details.
C17_PayloadCarriesError ==
    (http.pc = "responded" /\ http.call # 0 /\ RouteCall.pc = "rejected") =>
        LET error == RouteCall.error[1]
            body == Response.body
        IN  /\ Response.status >= 400
            /\ "type" \in DOMAIN body
            /\ "message" \in DOMAIN body
            /\ "type" \in DOMAIN error => body.type = error.type
            /\ body.message = error.message
            /\ "details" \in DOMAIN error => body.details = error.details

\* C18: a request whose asset identifier contains '..', '/' or '\' is answered
\* with status 400, and at no time is a model path resolved for it, the
\* converter called or a file read.
C18_TraversalRejectedFirst ==
    (/\ http.pc # "idle"
     /\ http.body.modelId # <<>>
     /\ \/ Includes(http.body.modelId[1], <<".", ".">>)
        \/ Includes(http.body.modelId[1], <<"/">>)
        \/ Includes(http.body.modelId[1], <<"\\">>)) =>
        /\ http.modelPath = <<>>
        /\ http.call = 0
        /\ conv = <<>>
        /\ reads = <<>>
        /\ http.pc = "responded" => Response.status = 400

C18_Witness ==
    /\ http.pc = "responded"
    /\ http.body.modelId = << <<"d", "\\", "a">> >>
    /\ http.body.compressionLevel = <<"lossless">>
    /\ Response = Json(400, [error |-> "Invalid modelId: path traversal not allowed"])
    /\ conv = <<>>

\* C19 as claimed: the archive for an asset of base name B has the entries
\* B.obj and B.mtl and one entry per key of the texture map, stored under that
\* key unchanged, and the download is named B.obj.zip, as an attachment.
C19_Base == Join(BaseName(http.modelId[1]))

C19_Output == Returned(RouteCall.result[1])

C19_TexturesAndName ==
    /\ \A key \in DOMAIN C19_Output.textures :
          /\ key \in DOMAIN Response.archive
          /\ Response.archive[key] = C19_Output.textures[key].data
    /\ Response.headers.ContentDisposition
          = "attachment; filename=\"" \o C19_Base \o ".obj.zip\""

C20_RunAlone(doc) ==
    Returned(ExportToOBJ(doc,
        [textures |-> <<>>, textureMap |-> <<>>, materialMap |-> <<>>,
         objContent |-> <<>>, mtlContent |-> <<>>, vertexOffset |-> 0,
         texCoordOffset |-> 0, normalOffset |-> 0]))

C20_SourceFails(path) ==
    \/ path \notin DOMAIN env.files
    \/ ~env.files[path].wellFormed
    \/ env.files[path].draco /\ ~env.draco

C21_Warning == "Draco compression not available, continuing without it"

C21_NeedsNoDraco(path) ==
    /\ path \in DOMAIN env.files
    /\ env.files[path].wellFormed
    /\ ~env.files[path].draco

C21_ContinuesWithoutDraco ==
    \A c \in DOMAIN conv : (~env.draco /\ conv[c].pc # "import") =>
        /\ conv[c].warnings = <<C21_Warning>>
        /\ \E i \in DOMAIN reads : reads[i] = conv[c].glbPath
        /\ C21_NeedsNoDraco(conv[c].glbPath) =>
              /\ conv[c].pc # "rejected"
              /\ conv[c].pc = "resolved" => conv[c].result # <<>>

C21_Witness ==
    /\ ~env.draco
    /\ C21_NeedsNoDraco("a.glb")
    /\ conv[1].pc = "resolved"
    /\ conv[1].warnings = <<C21_Warning>>
    /\ conv[1].stages = <<"load", "export">>

\* C22: a request at level full for the asset whose Document has one
\* primitive of the 3 vertices (0,0,0), (1,0,0), (0,1,0), with no texcoords,
\* normals, indices or material, is answered with a geometry buffer of exactly
\* 3 v lines and the one face line f 1 2 3, an empty material buffer and an
\* empty texture map.
C22_SingleTriangleAtFull ==
    (/\ http.pc = "responded"
     /\ http.call # 0
     /\ http.compressionLevel = "full"
     /\ RouteCall.glbPath \in DOMAIN env.files
     /\ env.files[RouteCall.glbPath] = Glb(TriangleDocument, FALSE)) =>
        /\ RouteCall.result # <<>>
        /\ LET output == Returned(RouteCall.result[1])
               faces == LinesTagged(output.obj, "f")
           IN  /\ Cardinality(LinesTagged(output.obj, "v")) = 3
               /\ Cardinality(faces) = 1
               /\ \A i \in faces :
                     output.obj[i] = <<"f", [v |-> 1], [v |-> 2], [v |-> 3]>>
               /\ output.mtl = <<>>
               /\ output.textures = <<>>

\* C23: a primitive with texcoords writes exactly one texcoord line per
\* vertex, in vertex order, whose U is the source U and whose V is 1 minus the
\* source V (a source V of 0.2 is written as 0.8); a primitive without
\* texcoords, or without positions, writes no texcoord line.
C23_TexcoordLinesOf(k) == {i \in LinesTagged(objContent, "vt") : emittedBy[i] = k}

C24_ExponentialBackoff ==
    /\ \A k \in 1..(Len(retry.delays) - 1) : retry.delays[k + 1] > retry.delays[k]
    /\ \A k \in 2..(Len(retry.delays) - 1) :
          retry.delays[k + 1] * retry.delays[k - 1] = retry.delays[k] * retry.delays[k]

\* C28: withRetry calls the operation at most maxRetries + 1 times; it
\* returns success, with the data of the attempt, at the first attempt that
\* resolves, and failure, with the message of the last attempt's error, only
\* when maxRetries + 1 attempts have rejected; it settles in no other way, and
\* every call returns.
C28_MessageOf(error) == IF error.isError THEN error.message ELSE error.value

C28_Rejections == {k \in DOMAIN retry.outcomes : "success" \notin DOMAIN retry.outcomes[k]}

C28_AtMostOncePerAttempt ==
    /\ retry.pc \in {"delay", "operation", "returned"}
    /\ retry.calls <= retry.maxRetries + 1
    /\ retry.calls = Len(retry.outcomes) + (IF retry.pc = "operation" THEN 1 ELSE 0)
    /\ \A k \in C28_Rejections : k = Len(retry.outcomes) \/ k + 1 \in DOMAIN retry.outcomes
    /\ \A k \in DOMAIN retry.outcomes : k \notin C28_Rejections => k = Len(retry.outcomes)
    /\ retry.pc = "returned" =>
          LET result == retry.result[1]
              last == retry.outcomes[Len(retry.outcomes)]
          IN  /\ retry.outcomes # <<>>
              /\ result.success <=> Len(retry.outcomes) \notin C28_Rejections
              /\ result.success => result = last
              /\ ~result.success =>
                    /\ Cardinality(C28_Rejections) = retry.maxRetries + 1
                    /\ result.error = C28_MessageOf(last)

C27_JobOf(h) == CHOOSE k \in DOMAIN jobs : jobs[k].id = h

C27_JobSettledAtResponse ==
    \A h \in DOMAIN handlers :
        (handlers[h].pc = "responded" /\ handlers[h].jobId # <<>>) =>
            jobs[C27_JobOf(h)].status \in {"completed", "failed"}

\* C29: under every interleaving of two handlers at their awaits, the job a
\* handler created and the asset it saved are in their registries, once each,
\* and the stored job is the created job with every update of its handler
\* applied in order.
C29_NoLostUpdate ==
    \A h \in DOMAIN handlers :
        /\ handlers[h].jobId # <<>> =>
              /\ Cardinality({k \in DOMAIN jobs : jobs[k].id = h}) = 1
              /\ jobs[C27_JobOf(h)] = handlers[h].expected[1]
        /\ handlers[h].saved # <<>> =>
              Cardinality({k \in DOMAIN assets : assets[k].id = h}) = 1

C29_Witness ==
    /\ handlers[1].pc = "responded"
    /\ handlers[2].pc = "responded"
    /\ handlers[1].response[1].status = 200
    /\ handlers[2].response[1].status = 500
    /\ handlers[2].reports = 1
    /\ Len(jobs) = 2
    /\ jobs[1].id = 2
    /\ jobs[1].status = "failed"
    /\ jobs[2].status = "completed"
    /\ Len(assets) = 1

\* C25: every usemtl line of the geometry buffer names a material for which
\* the material buffer has exactly one newmtl block, and that block is the
\* one generated from the material the primitive that wrote the line
\* references.
C25_Blocks(name) ==
    {j \in LinesTagged(mtlContent, "newmtl") : mtlContent[j][2] = name}

C25_BlockOf(name) ==
    LET start == CHOOSE j \in C25_Blocks(name) : TRUE
        later == {j \in LinesTagged(mtlContent, "newmtl") : j > start}
        stop == IF later = {} THEN Len(mtlContent)
                ELSE (CHOOSE j \in later : \A k \in later : j <= k) - 1
    IN  [n \in 1..(stop - start + 1) |-> mtlContent[start + n - 1]]

C25_UsemtlResolves ==
    \A i \in LinesTagged(objContent, "usemtl") :
        LET name == objContent[i][2]
            p == primitives[emittedBy[i]]
        IN  /\ Cardinality(C25_Blocks(name)) = 1
            /\ p.material # <<>>
            /\ C25_BlockOf(name) =
                  GenerateMTLMaterial(At(materials, p.material[1]), p.material[1],
                                      textureMap, textureDefs)

C25_Witness ==
    /\ pc = "done"
    /\ Len(materials) = 2
    /\ materials[1] # materials[2]
    /\ Len(primitives) = 2
    /\ primitives[1].material = <<1>>
    /\ primitives[2].material = <<0>>
    /\ Cardinality(LinesTagged(objContent, "usemtl")) = 2
    /\ mtlContent[1] = <<"newmtl", "material_1">>

\* C26: in every archive the endpoint answers with, the geometry entry has
\* one mtllib line, and the name it gives is the name of an entry of the
\* archive whose content is the material buffer of the conversion.
C26_Geometry == Response.archive[Join(BaseName(http.modelId[1])) \o ".obj"]

C30_Failed == {k \in DOMAIN bulk.outcomes : bulk.outcomes[k] # "success"}

C30_BatchesAndResults ==
    /\ bulk.pc = "batch" =>
          /\ Cardinality(bulk.inFlight) <= bulk.concurrency
          /\ \A k \in bulk.inFlight : \A j \in 0..(bulk.n - 1) :
                (j \div bulk.concurrency) < (k \div bulk.concurrency) =>
                    \E r \in DOMAIN bulk.results : bulk.results[r].index = j
          /\ \A b \in DOMAIN bulk.started : Cardinality(bulk.started[b]) <= bulk.concurrency
    /\ (bulk.pc = "responded" /\ bulk.response[1].status = 200) =>
          LET response == bulk.response[1]
          IN  /\ Len(response.results) = bulk.n
              /\ \A j \in 0..(bulk.n - 1) :
                    /\ Cardinality({r \in DOMAIN response.results :
                                       response.results[r].index = j}) = 1
                    /\ \A r \in DOMAIN response.results :
                          response.results[r].index = j =>
                              (response.results[r].success <=> bulk.outcomes[j] = "success")
              /\ response.summary.successful + response.summary.failed = bulk.n
              /\ response.summary.failed = Cardinality(C30_Failed)
              /\ jobs[1].status = IF Cardinality(C30_Failed) = bulk.n
                                  THEN "failed" ELSE "completed"

C30_Witness ==
    /\ bulk.pc = "responded"
    /\ bulk.n = 4
    /\ bulk.concurrency = 3
    /\ bulk.started = <<{0, 1, 2}, {3}>>
    /\ bulk.outcomes[0] = "throws"
    /\ bulk.outcomes[3] = "success"
    /\ bulk.response[1].summary = [total |-> 4, successful |-> 1, failed |-> 3]
    /\ jobs[1].status = "completed"

====
